---- MODULE Spec2Model ----
(***************************************************************************)
(* State-machine model of the SkillSwap client:                            *)
(*   - Home        (src/unnamed/part_000): paginated, filtered listing     *)
(*   - SearchDialog (src/src/components/ProfileCard.tsx:136-307):          *)
(*                  debounced two-table search                             *)
(*   - Signup      (src/src/pages/Signup.tsx): validation and signUp       *)
(* Text is a sequence of one-character strings, so that trimming,          *)
(* substring matching and length checks are computed, not assumed.         *)
(***************************************************************************)
EXTENDS Integers, Sequences, FiniteSets, TLC

VARIABLES
    \* remote tables (rows in the order the server returns them)
    db_profiles, db_skills, db_user_skills,
    \* accounts (auth.users ids), the skill_requests and reviews tables, and the
    \* last statement a caller ran against the tables with its outcome
    auth_users, db_requests, db_reviews, db_lastOp,
    \* Signup component state
    email, password, username, su_loading, su_error, success,
    \* su_pending: the arguments of the signUp call in flight; su_reply: how the
    \* call of the last submit settled
    su_pending, su_submits, su_reply,
    \* SearchDialog component state (and the Navbar's searchOpen); dlg_lastWriter:
    \* the search that wrote the result list last, with the queries of it that
    \* returned no data
    searchOpen, query, results, dlg_loading, timers, searches,
    dlg_started, dlg_lastWriter, dlg_sinceChange,
    \* Home component state, its in-flight fetches, and observation variables
    profiles, userSkills, loading, currentPage, totalPages, searchQuery,
    skillFilter, availableSkills, fetches, lastStore, lastCount, logging, pageLog,
    \* ProfileCard: the signed-in user from useAuth(), the props profile and
    \* onRequest (is the callback given?), and observation variables: the
    \* arguments onRequest was invoked with, the toasts shown, the clicks taken
    user, profile, onRequest, requested, toasts, clicks

dbVars == <<db_profiles, db_skills, db_user_skills, auth_users, db_requests,
           db_reviews, db_lastOp>>
suVars == <<email, password, username, su_loading, su_error, success,
            su_pending, su_submits, su_reply>>
dlgVars == <<searchOpen, query, results, dlg_loading, timers, searches,
             dlg_started, dlg_lastWriter, dlg_sinceChange>>
homeVars == <<profiles, userSkills, loading, currentPage, totalPages, searchQuery,
              skillFilter, availableSkills, fetches, lastStore, lastCount,
              logging, pageLog>>
cardVars == <<user, profile, onRequest, requested, toasts, clicks>>
vars == <<dbVars, suVars, dlgVars, homeVars, cardVars>>

\* an action of one component leaves the other components and the tables alone
SignupOnly == UNCHANGED <<dbVars, dlgVars, homeVars, cardVars>>
DialogOnly == UNCHANGED <<dbVars, suVars, homeVars, cardVars>>
HomeOnly   == UNCHANGED <<dbVars, suVars, dlgVars, cardVars>>
CardOnly   == UNCHANGED <<dbVars, suVars, dlgVars, homeVars>>

(***************************************************************************)
(* Text helpers                                                            *)
(***************************************************************************)
Alphabet == <<"a","b","c","d","e","f","g","h","i","j","k","l","m",
              "n","o","p","q","r","s","t","u","v","w","x","y","z">>
Capitals == <<"A","B","C","D","E","F","G","H","I","J","K","L","M",
              "N","O","P","Q","R","S","T","U","V","W","X","Y","Z">>
LowerLetters == {Alphabet[i] : i \in 1..Len(Alphabet)}
UpperLetters == {Capitals[i] : i \in 1..Len(Capitals)}
Digits == {"0","1","2","3","4","5","6","7","8","9"}

\* all sequences over S of length at most n
RECURSIVE SeqsUpTo(_, _)
SeqsUpTo(S, n) ==
    IF n = 0 THEN {<<>>}
    ELSE LET shorter == SeqsUpTo(S, n - 1)
         IN  shorter \cup {Append(t, c) : t \in {u \in shorter : Len(u) = n - 1}, c \in S}

\* the text made of n copies of c
Repeat(c, n) == [i \in 1..n |-> c]

\* an absent value is the empty sequence, a present one a one-element sequence
None == <<>>
Some(x) == <<x>>

\* String.prototype.includes: part occurs as a contiguous run of msg
Includes(msg, part) ==
    \E i \in 0..(Len(msg) - Len(part)) :
        \A j \in 1..Len(part) : msg[i + j] = part[j]

\* String.prototype.toLowerCase on one character
ToLower(c) ==
    IF c \in UpperLetters
    THEN Alphabet[CHOOSE i \in 1..Len(Capitals) : Capitals[i] = c]
    ELSE c

Lower(t) == [i \in 1..Len(t) |-> ToLower(t[i])]

WhiteSpace == {" "}

\* String.prototype.trim: drop leading and trailing white space
RECURSIVE TrimLeft(_)
TrimLeft(t) == IF t # <<>> /\ Head(t) \in WhiteSpace THEN TrimLeft(Tail(t)) ELSE t
RECURSIVE TrimRight(_)
TrimRight(t) ==
    IF t # <<>> /\ t[Len(t)] \in WhiteSpace THEN TrimRight(SubSeq(t, 1, Len(t) - 1)) ELSE t
Trim(t) == TrimRight(TrimLeft(t))

\* column ILIKE '%q%' for a q without wildcard characters:
\* q occurs in the column, letter case ignored
ILike(col, q) == Includes(Lower(col), Lower(q))

\* the first n elements of a sequence (a LIMIT n, or an array slice)
Take(seq, n) == SubSeq(seq, 1, IF Len(seq) < n THEN Len(seq) ELSE n)

Range(seq) == {seq[i] : i \in 1..Len(seq)}

(***************************************************************************)
(* Remote tables (supabase/migrations/...sql).  A table is the sequence of *)
(* its rows in insertion order; created_at grows with the position.        *)
(***************************************************************************)
DigitSeq == <<"0","1","2","3","4","5","6","7","8","9">>

\* the decimal digits of n, used to make generated names unique
RECURSIVE Decimal(_)
Decimal(n) ==
    IF n < 10 THEN <<DigitSeq[n + 1]>>
    ELSE Decimal(n \div 10) \o <<DigitSeq[(n % 10) + 1]>>

Pick(pool, i) == pool[((i - 1) % Len(pool)) + 1]

SkillNamePool == << <<"a">>, <<"A","b">>, <<"b","a">>, <<"b">> >>
UsernamePool  == << <<"a">>, <<"b">>, <<"B">> >>
FullNamePool  == << <<"A"," ","b">>, <<"a">>, <<"b">>, <<"a","b">> >>

\* skills: id, name UNIQUE (lines 40-46)
SkillRow(i) == [id |-> i, name |-> Pick(SkillNamePool, i) \o Decimal(i)]
SkillRows(n) == [i \in 1..n |-> SkillRow(i)]

\* profiles: id, user_id UNIQUE, username UNIQUE, full_name (lines 25-37)
ProfileRow(i) ==
    [id |-> i, user_id |-> 100 + i,
     username |-> Pick(UsernamePool, i) \o Decimal(i),
     full_name |-> Pick(FullNamePool, i),
     avg_rating |-> 0, total_reviews |-> 0]
ProfileRows(n) == [i \in 1..n |-> ProfileRow(i)]

(***************************************************************************)
(* Signup (src/src/pages/Signup.tsx)                                       *)
(***************************************************************************)
MsgAllRequired   == <<"All fields are required.">>
MsgPasswordShort == <<"Password must be at least 6 characters long.">>
MsgUsernameShort == <<"Username must be at least 3 characters long.">>
MsgUsernameChars == <<"Username can only contain letters, numbers, and underscores.">>
MsgExists        == <<"An account with this email already exists. Please sign in instead.">>
MsgWeak          == <<"Password is too weak. Please choose a stronger password.">>
MsgUnexpected    == <<"An unexpected error occurred. Please try again.">>
NoError          == <<>>

MinPasswordLen == 6
MinUsernameLen == 3

\* /^[a-zA-Z0-9_]+$/.test(username)
UsernameRegexAnyChar(u) == Len(u) >= 1
UsernameRegex(u) ==
    /\ Len(u) >= 1
    /\ \A i \in 1..Len(u) : u[i] \in LowerLetters \cup UpperLetters \cup Digits \cup {"_"}

\* validateForm: the error it sets, NoError when it returns true
ValidateFormNoMinLen(e, p, u) ==
    IF e = <<>> \/ p = <<>> \/ u = <<>> THEN MsgAllRequired
    ELSE IF Len(p) < MinPasswordLen THEN MsgPasswordShort
    ELSE IF ~UsernameRegex(u) THEN MsgUsernameChars
    ELSE NoError
ValidateForm(e, p, u) ==
    IF e = <<>> \/ p = <<>> \/ u = <<>> THEN MsgAllRequired
    ELSE IF Len(p) < MinPasswordLen THEN MsgPasswordShort
    ELSE IF Len(u) < MinUsernameLen THEN MsgUsernameShort
    ELSE IF ~UsernameRegex(u) THEN MsgUsernameChars
    ELSE NoError

\* the branches on the error returned by signUp (lines 66-73)
MapSignUpErrorWeakFirst(msg) ==
    IF Includes(msg, <<"weak password">>) THEN MsgWeak
    ELSE IF Includes(msg, <<"already registered">>) THEN MsgExists
    ELSE msg
MapSignUpError(msg) ==
    IF Includes(msg, <<"already registered">>) THEN MsgExists
    ELSE IF Includes(msg, <<"weak password">>) THEN MsgWeak
    ELSE msg

\* bounds of the form inputs
MaxEmailLen == 1
MaxPassLen == 7
MaxNameLen == 3
MaxSubmits == 2

EmailInputs == SeqsUpTo({"e"}, MaxEmailLen)
\* passwords: empty, and the lengths around the minimum
PasswordInputs == {Repeat("p", n) : n \in {0} \cup ((MinPasswordLen - 1)..MaxPassLen)}
\* usernames: every text over an accepted and a rejected character, and
\* samples of the other accepted character classes
UsernameInputs ==
    SeqsUpTo({"a", "-"}, MaxNameLen)
        \cup {<<"a", "7", "_">>, <<"_", "7">>, <<"A", "z", "9">>}

\* error messages the auth backend may return from signUp
BackendMessages ==
    { <<"User ", "already registered">>,
      <<"Signup rejected: ", "weak password">>,
      <<"weak password", " for an ", "already registered", " user">>,
      <<"Signups not allowed for this instance">> }

\* how the awaited signUp call of the last submit settled: "ok", "error" with
\* the backend message, or "thrown"
Reply(kind, msg) == [kind |-> kind, message |-> msg]

SuInit ==
    /\ email = <<>> /\ password = <<>> /\ username = <<>>
    /\ su_loading = FALSE /\ su_error = NoError /\ success = FALSE
    /\ su_pending = None /\ su_submits = 0 /\ su_reply = None

setEmail(e) ==
    /\ SignupOnly
    /\ e # email
    /\ email' = e
    /\ UNCHANGED <<password, username, su_loading, su_error, success, su_pending, su_submits, su_reply>>

setPassword(p) ==
    /\ SignupOnly
    /\ p # password
    /\ password' = p
    /\ UNCHANGED <<email, username, su_loading, su_error, success, su_pending, su_submits, su_reply>>

setUsername(u) ==
    /\ SignupOnly
    /\ u # username
    /\ username' = u
    /\ UNCHANGED <<email, password, su_loading, su_error, success, su_pending, su_submits, su_reply>>

\* setError('') at the start of a submit (line 55)
ErrorAtSubmitKept(err) == err
ErrorAtSubmit(err) == NoError

\* handleSubmit up to its first await (lines 52-64); the submit button is
\* disabled while loading (line 214), and the form is not rendered once
\* success is set (line 84)
handleSubmit ==
    /\ SignupOnly
    /\ ~su_loading /\ ~success
    /\ su_submits < MaxSubmits
    /\ su_submits' = su_submits + 1
    /\ su_reply' = None
    /\ success' = FALSE
    /\ LET v == ValidateForm(email, password, username) IN
         IF v # NoError
         THEN /\ su_error' = v
              /\ su_loading' = FALSE
              /\ su_pending' = None
         ELSE /\ su_error' = ErrorAtSubmit(su_error)
              /\ su_loading' = TRUE
              /\ su_pending' = Some([email |-> email, password |-> password, username |-> username])
    /\ UNCHANGED <<email, password, username>>

\* signUp resolves without error (lines 74-76, 79-81)
signUpOk ==
    /\ SignupOnly
    /\ su_pending # None
    /\ success' = TRUE
    /\ su_loading' = FALSE
    /\ su_pending' = None
    /\ su_reply' = Some(Reply("ok", <<>>))
    /\ UNCHANGED <<email, password, username, su_error, su_submits>>

\* signUp resolves with an error (lines 66-73, 79-81)
signUpError(msg) ==
    /\ SignupOnly
    /\ su_pending # None
    /\ su_error' = MapSignUpError(msg)
    /\ su_loading' = FALSE
    /\ su_pending' = None
    /\ su_reply' = Some(Reply("error", msg))
    /\ UNCHANGED <<email, password, username, success, su_submits>>

\* signUp rejects (lines 77-81)
signUpThrows ==
    /\ SignupOnly
    /\ su_pending # None
    /\ su_error' = MsgUnexpected
    /\ su_loading' = FALSE
    /\ su_pending' = None
    /\ su_reply' = Some(Reply("thrown", <<>>))
    /\ UNCHANGED <<email, password, username, success, su_submits>>

SuNext ==
    \/ \E e \in EmailInputs : setEmail(e)
    \/ \E p \in PasswordInputs : setPassword(p)
    \/ \E u \in UsernameInputs : setUsername(u)
    \/ handleSubmit
    \/ signUpOk
    \/ \E m \in BackendMessages : signUpError(m)
    \/ signUpThrows

(***************************************************************************)
(* SearchDialog (src/src/components/ProfileCard.tsx, lines 136-307)        *)
(***************************************************************************)
SearchDelay == 300
SearchLimit == 5

\* model time advances in steps of SearchDelay / TicksPerDelay milliseconds
TicksPerDelay == 2
TickMs == SearchDelay \div TicksPerDelay
MaxSearches == 2
MaxSearchRows == 7

\* values typed into the dialog's input
QueryInputs == { <<>>, <<" ">>, <<"a">>, <<"a", "B">> }

\* !query.trim()
IsBlank(q) == Trim(q) = <<>>

\* .from('skills').select('*').ilike('name', `%${q}%`).limit(5)
SkillsQueryNoLimit(q) ==
    LET Match(r) == ILike(r.name, q) IN SelectSeq(db_skills, Match)
SkillsQuery(q) ==
    LET Match(r) == ILike(r.name, q) IN Take(SelectSeq(db_skills, Match), SearchLimit)

\* .from('profiles').select('*')
\*   .or(`username.ilike.%${q}%,full_name.ilike.%${q}%`).limit(5)
ProfilesQuery(q) ==
    LET Match(r) == ILike(r.username, q) \/ ILike(r.full_name, q)
    IN  Take(SelectSeq(db_profiles, Match), SearchLimit)

\* data || []  (data is None when the query returned no data)
OrEmpty(data) == IF data = None THEN <<>> ELSE data[1]

\* the tagged list built at lines 186-201
SearchResults(skills, profs) ==
    [i \in 1..Len(OrEmpty(skills)) |->
        [type |-> "skill", id |-> OrEmpty(skills)[i].id, name |-> OrEmpty(skills)[i].name]]
    \o
    [i \in 1..Len(OrEmpty(profs)) |->
        [type |-> "user", id |-> OrEmpty(profs)[i].id, name |-> OrEmpty(profs)[i].full_name]]

\* clearTimeout(searchDelay) in the cleanup of the effect that ran for query q
ClearTimeoutNoop(ts, q) == ts
ClearTimeout(ts, q) == {t \in ts : t.q # q}

\* the effect body for the new query q (lines 164-209): the timers it schedules
EffectTimersNoGuard(q) == {[q |-> q, age |-> 0]}
EffectTimers(q) == IF IsBlank(q) THEN {} ELSE {[q |-> q, age |-> 0]}

DlgInit ==
    /\ searchOpen = FALSE /\ query = <<>> /\ results = <<>> /\ dlg_loading = FALSE
    /\ timers = {} /\ searches = {}
    /\ dlg_started = 0 /\ dlg_lastWriter = None /\ dlg_sinceChange = SearchDelay

\* re-render after query changed from query to q: cleanup of the previous
\* effect, then the effect for q (lines 163-212)
QueryEffect(q) ==
    /\ timers' = ClearTimeout(timers, query) \cup EffectTimers(q)
    /\ dlg_sinceChange' = 0

\* Navbar opens the dialog
openSearch ==
    /\ DialogOnly
    /\ ~searchOpen
    /\ searchOpen' = TRUE
    /\ UNCHANGED <<query, results, dlg_loading, timers, searches,
                   dlg_started, dlg_lastWriter, dlg_sinceChange>>

\* onChange of the input (line 233) and the effect it triggers
setQuery(q) ==
    /\ DialogOnly
    /\ searchOpen
    /\ q # query
    /\ query' = q
    /\ QueryEffect(q)
    /\ results' = IF IsBlank(q) THEN <<>> ELSE results
    /\ UNCHANGED <<searchOpen, dlg_loading, searches, dlg_started, dlg_lastWriter>>

\* handleClose (lines 214-218) and the effect it triggers when query changes
handleClose ==
    /\ DialogOnly
    /\ searchOpen
    /\ query' = <<>>
    /\ results' = <<>>
    /\ searchOpen' = FALSE
    /\ IF query # <<>> THEN QueryEffect(<<>>)
       ELSE UNCHANGED <<timers, dlg_sinceChange>>
    /\ UNCHANGED <<dlg_loading, searches, dlg_started, dlg_lastWriter>>

\* SearchDelay/TicksPerDelay milliseconds pass
Saturate(ms) == IF ms + TickMs >= SearchDelay THEN SearchDelay ELSE ms + TickMs
Tick ==
    /\ DialogOnly
    /\ \/ dlg_sinceChange < SearchDelay
       \/ \E t \in timers : t.age < SearchDelay
    /\ timers' = {[t EXCEPT !.age = Saturate(t.age)] : t \in timers}
    /\ dlg_sinceChange' = Saturate(dlg_sinceChange)
    /\ UNCHANGED <<searchOpen, query, results, dlg_loading, searches,
                   dlg_started, dlg_lastWriter>>

\* the position of a search: which of its queries is awaited.  The callback
\* awaits the skills query (line 173) before it builds the profiles query
\* (line 180)
FirstAwait == "skills"

\* the remote queries of search s that have been issued and not yet answered
QueriesInFlight(s) ==
    IF s.pc = "skills" THEN {"skills"}
    ELSE IF s.pc = "profiles" THEN {"profiles"}
    ELSE {"skills", "profiles"}

\* the timeout callback up to its first await (lines 169-177): the skills
\* query is issued
timerFires(t) ==
    /\ DialogOnly
    /\ t \in timers
    /\ t.age >= SearchDelay
    /\ dlg_started < MaxSearches
    /\ timers' = timers \ {t}
    /\ dlg_loading' = TRUE
    /\ dlg_started' = dlg_started + 1
    /\ searches' = searches \cup
          {[gen |-> dlg_started + 1, q |-> t.q, pc |-> FirstAwait, skills |-> None]}
    /\ UNCHANGED <<searchOpen, query, results, dlg_lastWriter, dlg_sinceChange>>

\* the skills query resolves (lines 173-184): the profiles query is issued
searchSkillsReturn(s, ok) ==
    /\ DialogOnly
    /\ s \in searches /\ s.pc = "skills"
    /\ searches' = (searches \ {s}) \cup
          {[s EXCEPT !.pc = "profiles",
                     !.skills = IF ok THEN Some(SkillsQuery(s.q)) ELSE None]}
    /\ UNCHANGED <<searchOpen, query, results, dlg_loading, timers,
                   dlg_started, dlg_lastWriter, dlg_sinceChange>>

\* the list a finished search passes to setResults (line 203)
WrittenResultsAllOrNothing(s, profs) ==
    IF s.skills = None \/ profs = None THEN <<>> ELSE SearchResults(s.skills, profs)
WrittenResults(s, profs) == SearchResults(s.skills, profs)

\* the queries of search s that returned no data, ok telling whether its
\* profiles query did (an observation)
NoData(s, ok) ==
    (IF s.skills = None THEN {"skills"} ELSE {}) \cup (IF ok THEN {} ELSE {"profiles"})

\* the profiles query resolves (lines 180-208)
searchProfilesReturn(s, ok) ==
    /\ DialogOnly
    /\ s \in searches /\ s.pc = "profiles"
    /\ searches' = searches \ {s}
    /\ results' = WrittenResults(s, IF ok THEN Some(ProfilesQuery(s.q)) ELSE None)
    /\ dlg_lastWriter' = Some([gen |-> s.gen, q |-> s.q, nodata |-> NoData(s, ok)])
    /\ dlg_loading' = FALSE
    /\ UNCHANGED <<searchOpen, query, timers, dlg_started, dlg_sinceChange>>

\* one of the two queries rejects (lines 204-208)
queryThrows(s) ==
    /\ DialogOnly
    /\ s \in searches
    /\ searches' = searches \ {s}
    /\ dlg_loading' = FALSE
    /\ UNCHANGED <<searchOpen, query, results, timers,
                   dlg_started, dlg_lastWriter, dlg_sinceChange>>

DlgNext ==
    \/ openSearch
    \/ \E q \in QueryInputs : setQuery(q)
    \/ handleClose
    \/ Tick
    \/ \E t \in timers : timerFires(t)
    \/ \E s \in searches, ok \in BOOLEAN : searchSkillsReturn(s, ok)
    \/ \E s \in searches, ok \in BOOLEAN : searchProfilesReturn(s, ok)
    \/ \E s \in searches : queryThrows(s)

(***************************************************************************)
(* Home (src/unnamed/part_000): the listing                                *)
(***************************************************************************)
ITEMS_PER_PAGE == 10

\* user_skills: user_id, skill_id, skill_type, UNIQUE (lines 49-57)
Link(i, k, t) == [user_id |-> 100 + i, skill_id |-> k, skill_type |-> t]

\* the links of the i-th account in a catalog of k skills: skill 1 is offered
\* by two accounts out of three, skill 2 by nobody, skill 3 by every second one
LinksOf(i, k) ==
    (IF k >= 3 /\ i % 2 = 0 THEN <<Link(i, 3, "offered")>> ELSE <<>>)
    \o (IF k >= 2 /\ i % 4 = 1 THEN <<Link(i, 2, "wanted")>> ELSE <<>>)
    \o (IF k >= 1 /\ i % 3 # 0 THEN <<Link(i, 1, "offered")>> ELSE <<>>)
    \o (IF k >= 1 /\ i % 3 = 0 THEN <<Link(i, 1, "wanted")>> ELSE <<>>)

RECURSIVE LinkRows(_, _)
LinkRows(n, k) == IF n = 0 THEN <<>> ELSE LinkRows(n - 1, k) \o LinksOf(n, k)

Reverse(seq) == [i \in 1..Len(seq) |-> seq[Len(seq) + 1 - i]]

\* Math.ceil(a / b) for integers a >= 0, b > 0
Ceil(a, b) == IF a % b = 0 THEN a \div b ELSE (a \div b) + 1

\* .from('skills').select('id').eq('name', name).single(): the row, if any
SkillLookup(name) ==
    LET rows == SelectSeq(db_skills, LAMBDA r : r.name = name)
    IN  IF Len(rows) = 1 THEN Some(rows[1]) ELSE None

\* .from('user_skills').select('user_id').eq('skill_id', id).eq('skill_type', 'offered')
Offerers(id) ==
    LET rows == SelectSeq(db_user_skills,
                          LAMBDA r : r.skill_id = id /\ r.skill_type = "offered")
    IN  [i \in 1..Len(rows) |-> rows[i].user_id]

\* the rows the profile query selects (lines 71-78, 96, 107): the optional
\* .or(username.ilike, full_name.ilike), the optional .in('user_id', ids),
\* newest first
MatchingRows(search, ids) ==
    SelectSeq(Reverse(db_profiles),
              LAMBDA r : /\ \/ search = <<>>
                            \/ ILike(r.username, search)
                            \/ ILike(r.full_name, search)
                         /\ \/ ids = None
                            \/ r.user_id \in Range(ids[1]))

\* .range(from, to): rows from..to of the result, counted from 0, both included
RowRangeOneTooMany(rows, from, to) ==
    SubSeq(rows, from + 1, IF to + 2 < Len(rows) THEN to + 2 ELSE Len(rows))
RowRange(rows, from, to) ==
    SubSeq(rows, from + 1, IF to + 1 < Len(rows) THEN to + 1 ELSE Len(rows))

\* the awaited profile query (lines 106-108): data and the exact count
ProfileQuery(search, ids, page) ==
    LET rows == MatchingRows(search, ids)
    IN  [data  |-> RowRange(rows, (page - 1) * ITEMS_PER_PAGE, page * ITEMS_PER_PAGE - 1),
         count |-> Len(rows)]

\* the batch query of fetchUserSkills (lines 129-136), skill:skills(name) joined
SkillName(id) == (CHOOSE r \in Range(db_skills) : r.id = id).name
UserSkillsQuery(userIds) ==
    LET rows == SelectSeq(db_user_skills, LAMBDA r : r.user_id \in Range(userIds))
    IN  [i \in 1..Len(rows) |->
            [user_id |-> rows[i].user_id, skill_type |-> rows[i].skill_type,
             skill |-> SkillName(rows[i].skill_id)]]

\* the reduction of lines 139-151; a skillsMap entry is [offered, wanted], each
\* absent (None) or Some(skill)
EmptyMap == [u \in {} |-> None]
NoSkills == [offered |-> None, wanted |-> None]

ReduceItemLastWins(map, item) ==
    LET m == [u \in DOMAIN map \cup {item.user_id} |->
                 IF u \in DOMAIN map THEN map[u] ELSE NoSkills]
    IN  IF item.skill_type = "offered"
        THEN [m EXCEPT ![item.user_id].offered = Some(item.skill)]
        ELSE IF item.skill_type = "wanted"
        THEN [m EXCEPT ![item.user_id].wanted = Some(item.skill)]
        ELSE m
ReduceItem(map, item) ==
    LET m == [u \in DOMAIN map \cup {item.user_id} |->
                 IF u \in DOMAIN map THEN map[u] ELSE NoSkills]
    IN  IF item.skill_type = "offered" /\ m[item.user_id].offered = None
        THEN [m EXCEPT ![item.user_id].offered = Some(item.skill)]
        ELSE IF item.skill_type = "wanted" /\ m[item.user_id].wanted = None
        THEN [m EXCEPT ![item.user_id].wanted = Some(item.skill)]
        ELSE m

RECURSIVE ReduceFrom(_, _)
ReduceFrom(map, items) ==
    IF items = <<>> THEN map
    ELSE ReduceFrom(ReduceItem(map, Head(items)), Tail(items))

SkillsMap(items) == ReduceFrom(EmptyMap, items)

\* bounds of the listing model
MaxProfiles == 21
MaxListed == 11
MaxCatalog == 2
MaxInFlight == 2
MaxLinkRows == 3

\* values typed into the listing's search box
SearchInputs == { <<>>, <<"a">> }

PageInputs == 1..(MaxProfiles \div ITEMS_PER_PAGE + 1)

\* the pages the Pagination control offers (component not in the sources)
PaginationPages == 1..totalPages

\* a fetch in flight: the values its closure captured, the await it is at
\* (pc), the user ids resolved so far, whether it is the latest one started,
\* and whether a fetch started after it has already stored its result (an
\* observation, see Overtake)
NewFetchWithLookup(page, search, skill) ==
    [page |-> page, search |-> search, skill |-> skill,
     pc |-> "skill", ids |-> None, latest |-> TRUE, overtaken |-> FALSE]
NewFetch(page, search, skill) ==
    [page |-> page, search |-> search, skill |-> skill,
     pc |-> IF skill # <<>> THEN "skill" ELSE "profiles",
     ids |-> None, latest |-> TRUE, overtaken |-> FALSE]

InFlight == Len(fetches)

\* fetchProfiles up to its first await, called with the values of one render
\* (lines 68-86, 106): it is appended to the fetches in flight
Started(fs, page, search, skill) ==
    [i \in 1..Len(fs) |-> [fs[i] EXCEPT !.latest = FALSE]]
    \o <<NewFetch(page, search, skill)>>

Without(fs, i) == SubSeq(fs, 1, i - 1) \o SubSeq(fs, i + 1, Len(fs))

\* fetch i of fs stores its result: the fetches started before it are overtaken
\* (an observation, kept while logging is on)
Overtake(fs, i) ==
    IF logging
    THEN [j \in 1..Len(fs) |-> IF j < i THEN [fs[j] EXCEPT !.overtaken = TRUE] ELSE fs[j]]
    ELSE fs

\* pageLog (an observation, kept while logging is on): the page each fetch
\* stored since the filters last changed
Logged(log, page, rows) ==
    IF logging
    THEN [p \in DOMAIN log \cup {page} |-> IF p = page THEN rows ELSE log[p]]
    ELSE log

HomeIdle ==
    /\ profiles = <<>> /\ userSkills = EmptyMap /\ loading = TRUE
    /\ currentPage = 1 /\ totalPages = 1 /\ searchQuery = <<>> /\ skillFilter = <<>>
    /\ availableSkills = {} /\ fetches = <<>>
    /\ lastStore = None /\ lastCount = None /\ logging = FALSE /\ pageLog = EmptyMap

\* the state after mounting: the effect of lines 49-51 has started a fetch
\* (fetchAvailableSkills is resolved by availableSkillsReturn)
HomeInit ==
    /\ profiles = <<>> /\ userSkills = EmptyMap /\ loading = TRUE
    /\ currentPage = 1 /\ totalPages = 1 /\ searchQuery = <<>> /\ skillFilter = <<>>
    /\ availableSkills = {}
    /\ fetches = <<NewFetch(1, <<>>, <<>>)>>
    /\ lastStore = None /\ lastCount = None /\ logging = FALSE /\ pageLog = EmptyMap

\* fetchAvailableSkills resolves (lines 53-66); the Select only uses the
\* names as options, so their order is not kept
availableSkillsReturn ==
    /\ HomeOnly
    /\ availableSkills = {} /\ db_skills # <<>>
    /\ availableSkills' = {r.name : r \in Range(db_skills)}
    /\ UNCHANGED <<profiles, userSkills, loading, currentPage, totalPages, searchQuery,
                   skillFilter, fetches, lastStore, lastCount, logging, pageLog>>

\* onChange of the search box (line 255) and the effect of lines 49-51
setSearchQuery(s) ==
    /\ HomeOnly
    /\ s # searchQuery
    /\ InFlight < MaxInFlight
    /\ searchQuery' = s
    /\ loading' = TRUE
    /\ fetches' = Started(fetches, currentPage, s, skillFilter)
    /\ pageLog' = EmptyMap
    /\ UNCHANGED <<profiles, userSkills, currentPage, totalPages, skillFilter,
                   availableSkills, lastStore, lastCount, logging>>

\* onValueChange of the Select (line 258) and the effect of lines 49-51
setSkillFilter(f) ==
    /\ HomeOnly
    /\ f \in availableSkills /\ f # skillFilter
    /\ InFlight < MaxInFlight
    /\ skillFilter' = f
    /\ loading' = TRUE
    /\ fetches' = Started(fetches, currentPage, searchQuery, f)
    /\ pageLog' = EmptyMap
    /\ UNCHANGED <<profiles, userSkills, currentPage, totalPages, searchQuery,
                   availableSkills, lastStore, lastCount, logging>>

\* onPageChange of the Pagination (lines 303, 318-322), rendered only while
\* not loading and with profiles to show, and the effect of lines 49-51
setCurrentPage(p) ==
    /\ HomeOnly
    /\ ~loading /\ Len(profiles) > 0
    /\ p \in PaginationPages /\ p # currentPage
    /\ InFlight < MaxInFlight
    /\ currentPage' = p
    /\ loading' = TRUE
    /\ fetches' = Started(fetches, p, searchQuery, skillFilter)
    /\ UNCHANGED <<profiles, userSkills, totalPages, searchQuery, skillFilter,
                   availableSkills, lastStore, lastCount, logging, pageLog>>

\* handleSearch (lines 160-164): fetchProfiles() runs with the values of the
\* current render; the effect then runs if currentPage changed
handleSearch ==
    /\ HomeOnly
    /\ InFlight + (IF currentPage # 1 THEN 2 ELSE 1) <= MaxInFlight
    /\ currentPage' = 1
    /\ loading' = TRUE
    /\ fetches' =
          LET direct == Started(fetches, currentPage, searchQuery, skillFilter)
          IN  IF currentPage # 1
              THEN Started(direct, 1, searchQuery, skillFilter)
              ELSE direct
    /\ UNCHANGED <<profiles, userSkills, totalPages, searchQuery, skillFilter,
                   availableSkills, lastStore, lastCount, logging, pageLog>>

\* clearFilters (lines 166-170, shown by line 274) and the effect of lines 49-51
clearFilters ==
    /\ HomeOnly
    /\ searchQuery # <<>> \/ skillFilter # <<>>
    /\ InFlight < MaxInFlight
    /\ searchQuery' = <<>> /\ skillFilter' = <<>> /\ currentPage' = 1
    /\ loading' = TRUE
    /\ fetches' = Started(fetches, 1, <<>>, <<>>)
    /\ pageLog' = EmptyMap
    /\ UNCHANGED <<profiles, userSkills, totalPages, availableSkills,
                   lastStore, lastCount, logging>>

\* the skills lookup of fetch i resolves (lines 82-88); found is FALSE when the
\* request fails.  With a row the offerers lookup is issued, without one the
\* profile query is issued unrestricted
skillLookupReturn(i, found) ==
    /\ HomeOnly
    /\ i \in 1..Len(fetches) /\ fetches[i].pc = "skill"
    /\ LET skillData == IF found THEN SkillLookup(fetches[i].skill) ELSE None
       IN  fetches' =
             IF skillData # None
             THEN [fetches EXCEPT ![i].pc = "offerers", ![i].ids = Some(skillData[1].id)]
             ELSE [fetches EXCEPT ![i].pc = "profiles"]
    /\ UNCHANGED <<profiles, userSkills, loading, currentPage, totalPages, searchQuery,
                   skillFilter, availableSkills, lastStore, lastCount, logging, pageLog>>

\* the offerers lookup of fetch i resolves (lines 89-102); ok is FALSE when the
\* request fails (userIds is null)
offerersReturn(i, ok) ==
    /\ HomeOnly
    /\ i \in 1..Len(fetches) /\ fetches[i].pc = "offerers"
    /\ LET userIds == IF ok THEN Offerers(fetches[i].ids[1]) ELSE <<>>
       IN  IF userIds # <<>>
           THEN /\ fetches' = [fetches EXCEPT ![i].pc = "profiles", ![i].ids = Some(userIds)]
                /\ UNCHANGED <<profiles, totalPages, loading, lastStore, lastCount>>
           ELSE /\ profiles' = <<>>
                /\ totalPages' = 1
                /\ loading' = FALSE
                /\ fetches' = Without(Overtake(fetches, i), i)
                /\ lastStore' = Some([page |-> fetches[i].page, search |-> fetches[i].search,
                                      skill |-> fetches[i].skill, queried |-> FALSE,
                                      failed |-> ~ok, stale |-> fetches[i].overtaken])
                /\ lastCount' = None
    /\ pageLog' = IF ok /\ Offerers(fetches[i].ids[1]) # <<>> THEN pageLog
                  ELSE Logged(pageLog, fetches[i].page, <<>>)
    /\ UNCHANGED <<userSkills, currentPage, searchQuery, skillFilter,
                   availableSkills, logging>>

\* the profile query of fetch i resolves with data (lines 106-118):
\* fetchUserSkills is called and issues its batch query
profilesReturn(i) ==
    /\ HomeOnly
    /\ i \in 1..Len(fetches) /\ fetches[i].pc = "profiles"
    /\ LET f == fetches[i]
           res == ProfileQuery(f.search, f.ids, f.page)
       IN  /\ profiles' = res.data
           /\ totalPages' = Ceil(res.count, ITEMS_PER_PAGE)
           /\ fetches' = Overtake(
                             [fetches EXCEPT ![i].pc = "userSkills",
                                 ![i].ids = Some([k \in 1..Len(res.data) |-> res.data[k].user_id])],
                             i)
           /\ lastStore' = Some([page |-> f.page, search |-> f.search,
                                 skill |-> f.skill, queried |-> TRUE,
                                 failed |-> FALSE, stale |-> f.overtaken])
           /\ lastCount' = Some(res.count)
           /\ pageLog' = Logged(pageLog, f.page, res.data)
    /\ UNCHANGED <<userSkills, loading, currentPage, searchQuery, skillFilter,
                   availableSkills, logging>>

\* the catch block of fetchProfiles (lines 119-121) only logs the error: the
\* profile list is left as it was
ProfilesAfterErrorCleared(profs) == <<>>
ProfilesAfterError(profs) == profs

\* the profile query of fetch i resolves with an error (lines 110, 120-124)
profilesError(i) ==
    /\ HomeOnly
    /\ i \in 1..Len(fetches) /\ fetches[i].pc = "profiles"
    /\ profiles' = ProfilesAfterError(profiles)
    /\ loading' = FALSE
    /\ fetches' = Without(fetches, i)
    /\ UNCHANGED <<userSkills, currentPage, totalPages, searchQuery, skillFilter,
                   availableSkills, lastStore, lastCount, logging, pageLog>>

\* the batch query of fetchUserSkills resolves (lines 138-157, 122-124); ok is
\* FALSE when it returns no data
userSkillsReturn(i, ok) ==
    /\ HomeOnly
    /\ i \in 1..Len(fetches) /\ fetches[i].pc = "userSkills"
    /\ userSkills' = IF ok THEN SkillsMap(UserSkillsQuery(fetches[i].ids[1]))
                     ELSE userSkills
    /\ loading' = FALSE
    /\ fetches' = Without(fetches, i)
    /\ UNCHANGED <<profiles, currentPage, totalPages, searchQuery, skillFilter,
                   availableSkills, lastStore, lastCount, logging, pageLog>>

HomeNext ==
    \/ availableSkillsReturn
    \/ \E s \in SearchInputs : setSearchQuery(s)
    \/ \E f \in availableSkills : setSkillFilter(f)
    \/ \E p \in PageInputs : setCurrentPage(p)
    \/ handleSearch
    \/ clearFilters
    \/ \E i \in 1..MaxInFlight, found \in BOOLEAN : skillLookupReturn(i, found)
    \/ \E i \in 1..MaxInFlight, ok \in BOOLEAN : offerersReturn(i, ok)
    \/ \E i \in 1..MaxInFlight : profilesReturn(i)
    \/ \E i \in 1..MaxInFlight : profilesError(i)
    \/ \E i \in 1..MaxInFlight, ok \in BOOLEAN : userSkillsReturn(i, ok)

(***************************************************************************)
(* ProfileCard (src/src/components/ProfileCard.tsx, lines 33-135)          *)
(***************************************************************************)
MaxClicks == 3

\* the toast of lines 39-43
LoginNotice ==
    [title |-> "Please log in",
     description |-> "You need to be logged in to send skill requests.",
     variant |-> "destructive"]

\* the profiles a card is rendered for, and the sessions useAuth() may hold
CardProfiles == Range(ProfileRows(2))
SessionUsers == {None} \cup {Some([id |-> p.user_id]) : p \in CardProfiles}

\* disabled={user?.id === profile.user_id} (line 127)
ButtonDisabled == user # None /\ user[1].id = profile.user_id

\* the argument handleRequest passes to onRequest (line 48)
RequestArgUserId(p) == p.user_id
RequestArg(p) == p.id

CardIdle ==
    /\ user = None /\ profile = ProfileRow(1) /\ onRequest = FALSE
    /\ requested = <<>> /\ toasts = <<>> /\ clicks = 0

\* a card as its parent renders it: for some profile, with or without the
\* optional onRequest prop (line 30)
CardInit ==
    /\ user = None /\ profile \in CardProfiles /\ onRequest \in BOOLEAN
    /\ requested = <<>> /\ toasts = <<>> /\ clicks = 0

\* useAuth() returns another user (line 34): sign-in, sign-out
setUser(u) ==
    /\ CardOnly
    /\ u # user
    /\ user' = u
    /\ UNCHANGED <<profile, onRequest, requested, toasts, clicks>>

\* the parent renders the card for another profile (line 33)
setProfile(p) ==
    /\ CardOnly
    /\ p # profile
    /\ profile' = p
    /\ UNCHANGED <<user, onRequest, requested, toasts, clicks>>

\* a click on the request button (lines 123-130) runs handleRequest (lines
\* 37-50); a disabled button takes no click
handleRequest ==
    /\ CardOnly
    /\ ~ButtonDisabled
    /\ clicks < MaxClicks
    /\ clicks' = clicks + 1
    /\ IF user = None
       THEN /\ toasts' = Append(toasts, LoginNotice)
            /\ UNCHANGED requested
       ELSE /\ requested' = IF onRequest THEN Append(requested, RequestArg(profile))
                            ELSE requested
            /\ UNCHANGED toasts
    /\ UNCHANGED <<user, profile, onRequest>>

CardNext ==
    \/ \E u \in SessionUsers : setUser(u)
    \/ \E p \in CardProfiles : setProfile(p)
    \/ handleRequest

(***************************************************************************)
(* Database (src/supabase/migrations/...sql): accounts, row-level security *)
(* and triggers.  A statement is run by a caller, whose identity is        *)
(* auth.uid(); avg_rating is kept in hundredths (DECIMAL(3,2)).            *)
(***************************************************************************)
MaxReviews == 3
MaxOwnedLinks == 2

\* auth.uid() of a request that carries no session
Anonymous == 0
AccountIds == {101, 102}
Callers == AccountIds \cup {Anonymous}

\* the statement a caller ran and the rows it wrote or read
Stmt(table, op, caller, rows) ==
    Some([table |-> table, op |-> op, caller |-> caller, rows |-> rows])

RECURSIVE SumRatings(_)
SumRatings(rs) == IF rs = <<>> THEN 0 ELSE Head(rs).rating + SumRatings(Tail(rs))

ReviewsOf(reviews, u) == SelectSeq(reviews, LAMBDA r : r.reviewee_id = u)

\* COALESCE(AVG(rating::decimal), 0) stored in a DECIMAL(3,2) column: the mean
\* rounded half up to two decimals, in hundredths (lines 33, 165-169)
AvgRating(reviews, u) ==
    LET rs == ReviewsOf(reviews, u)
    IN  IF rs = <<>> THEN 0
        ELSE (200 * SumRatings(rs) + Len(rs)) \div (2 * Len(rs))

\* SELECT COUNT(*) ... WHERE reviewee_id = u (lines 170-174)
CountReviews(reviews, u) == Len(ReviewsOf(reviews, u))

\* update_profile_rating (lines 160-178): runs after a review row is inserted
update_profile_rating(profs, reviews, u) ==
    [i \in 1..Len(profs) |->
        IF profs[i].user_id = u
        THEN [profs[i] EXCEPT !.avg_rating = AvgRating(reviews, u),
                              !.total_reviews = CountReviews(reviews, u)]
        ELSE profs[i]]

\* handle_new_user (lines 141-152): the profile row of a new account
NewProfile(u, name, full) ==
    [id |-> u - 100, user_id |-> u, username |-> name, full_name |-> full,
     avg_rating |-> 0, total_reviews |-> 0]

\* the constraints of profiles: user_id UNIQUE and a foreign key to auth.users,
\* username UNIQUE (lines 27-28)
ProfilesConstraintsNoForeignKey(profs, users) ==
    \A i, j \in 1..Len(profs) :
        (profs[i].user_id = profs[j].user_id \/ profs[i].username = profs[j].username)
            => i = j
ProfilesConstraints(profs, users) ==
    /\ \A i, j \in 1..Len(profs) :
          (profs[i].user_id = profs[j].user_id \/ profs[i].username = profs[j].username)
              => i = j
    /\ \A i \in 1..Len(profs) : profs[i].user_id \in users

\* the constraints of user_skills: foreign keys, CHECK on skill_type, and
\* UNIQUE(user_id, skill_id, skill_type) (lines 51-56)
UserSkillsConstraints(links, users) ==
    /\ \A i, j \in 1..Len(links) : links[i] = links[j] => i = j
    /\ \A i \in 1..Len(links) :
          /\ links[i].user_id \in users
          /\ \E k \in Range(db_skills) : k.id = links[i].skill_id
          /\ links[i].skill_type \in {"offered", "wanted"}

\* row-level security (lines 91-117): may caller write a row owned by owner?
\* auth.uid() is NULL without a session, and NULL = user_id is not true
OwnsRowAnyCaller(caller, owner) == TRUE
OwnsRow(caller, owner) == caller # Anonymous /\ caller = owner

\* SET col = val on one row
Patched(row, patch) ==
    IF patch.col = "username" THEN [row EXCEPT !.username = patch.val]
    ELSE IF patch.col = "full_name" THEN [row EXCEPT !.full_name = patch.val]
    ELSE IF patch.col = "avg_rating" THEN [row EXCEPT !.avg_rating = patch.val]
    ELSE IF patch.col = "total_reviews" THEN [row EXCEPT !.total_reviews = patch.val]
    ELSE IF patch.col = "skill_type" THEN [row EXCEPT !.skill_type = patch.val]
    ELSE IF patch.col = "status" THEN [row EXCEPT !.status = patch.val]
    ELSE IF patch.col = "requester_id" THEN [row EXCEPT !.requester_id = patch.val]
    ELSE IF patch.col = "provider_id" THEN [row EXCEPT !.provider_id = patch.val]
    ELSE [row EXCEPT !.user_id = patch.val]

AccountNames == {<<"a">>, <<"b">>}
\* SET clauses tried on profiles: the derived columns, and the key columns
RatingPatches == {[col |-> "avg_rating", val |-> 500]}
ProfilePatches ==
    {[col |-> "username", val |-> <<"z">>], [col |-> "avg_rating", val |-> 500]}
        \cup {[col |-> "user_id", val |-> u] : u \in AccountIds}
RatingInputs == {1, 2, 6}
RequestInputs == {None}

DbOnly == UNCHANGED <<suVars, dlgVars, homeVars, cardVars>>

\* INSERT INTO auth.users by the auth service, with the trigger
\* on_auth_user_created (lines 141-157) in the same transaction: a profile row
\* that breaks a constraint raises and the account is not created
createAccount(u, name, full) ==
    /\ DbOnly
    /\ u \notin auth_users
    /\ LET profs == Append(db_profiles, NewProfile(u, name, full)) IN
         IF ProfilesConstraints(profs, auth_users \cup {u})
         THEN /\ auth_users' = auth_users \cup {u}
              /\ db_profiles' = profs
              /\ db_lastOp' = Stmt("auth.users", "insert", Anonymous, <<[user_id |-> u]>>)
         ELSE /\ UNCHANGED <<auth_users, db_profiles>>
              /\ db_lastOp' = Stmt("auth.users", "insert", Anonymous, <<>>)
    /\ UNCHANGED <<db_skills, db_user_skills, db_requests, db_reviews>>

\* DELETE FROM auth.users: ON DELETE CASCADE removes the account's profile, its
\* skill links, the requests it made or received and the reviews it wrote or
\* received (lines 27, 51, 62-63, 75-76); a remaining review of a removed
\* request gets skill_request_id NULL (line 77); no trigger runs on these
\* deletions
deleteAccount(u) ==
    /\ DbOnly
    /\ u \in auth_users
    /\ auth_users' = auth_users \ {u}
    /\ db_profiles' = SelectSeq(db_profiles, LAMBDA r : r.user_id # u)
    /\ db_user_skills' = SelectSeq(db_user_skills, LAMBDA l : l.user_id # u)
    /\ db_requests' = SelectSeq(db_requests, LAMBDA q : q.requester_id # u /\ q.provider_id # u)
    /\ LET kept == SelectSeq(db_reviews, LAMBDA r : r.reviewer_id # u /\ r.reviewee_id # u)
           gone == {Some(q.id) : q \in {q \in Range(db_requests) :
                                           q.requester_id = u \/ q.provider_id = u}}
       IN  db_reviews' = [i \in 1..Len(kept) |->
                             IF kept[i].skill_request_id \in gone
                             THEN [kept[i] EXCEPT !.skill_request_id = None]
                             ELSE kept[i]]
    /\ db_lastOp' = Stmt("auth.users", "delete", Anonymous, <<[user_id |-> u]>>)
    /\ UNCHANGED db_skills

\* UNIQUE(reviewer_id, reviewee_id, skill_request_id) (line 81): a unique
\* constraint compares NULLs as distinct, so rows whose skill_request_id is
\* NULL never collide
ReviewsUnique(reviews) ==
    \A i, j \in 1..Len(reviews) :
        (/\ reviews[i].reviewer_id = reviews[j].reviewer_id
         /\ reviews[i].reviewee_id = reviews[j].reviewee_id
         /\ reviews[i].skill_request_id # None
         /\ reviews[i].skill_request_id = reviews[j].skill_request_id) => i = j

\* INSERT INTO reviews by caller (policy lines 136-138, constraints lines
\* 75-81), then the trigger on_review_created (lines 160-183)
insertReview(caller, reviewer, reviewee, request, rating) ==
    /\ DbOnly
    /\ Len(db_reviews) < MaxReviews
    /\ LET row == [reviewer_id |-> reviewer, reviewee_id |-> reviewee,
                   skill_request_id |-> request, rating |-> rating]
           allowed ==
               /\ caller # Anonymous /\ caller = reviewer
               /\ reviewer \in auth_users /\ reviewee \in auth_users
               /\ rating >= 1 /\ rating <= 5
               /\ request # None => \E q \in Range(db_requests) : q.id = request[1]
               /\ ReviewsUnique(Append(db_reviews, row))
       IN  IF allowed
           THEN /\ db_reviews' = Append(db_reviews, row)
                /\ db_profiles' = update_profile_rating(db_profiles, Append(db_reviews, row), reviewee)
                /\ db_lastOp' = Stmt("reviews", "insert", caller, <<row>>)
           ELSE /\ UNCHANGED <<db_reviews, db_profiles>>
                /\ db_lastOp' = Stmt("reviews", "insert", caller, <<>>)
    /\ UNCHANGED <<auth_users, db_skills, db_user_skills, db_requests>>

\* INSERT INTO profiles by caller (policy lines 99-101)
insertProfile(caller, u, name) ==
    /\ DbOnly
    /\ LET row == NewProfile(u, name, name)
           profs == Append(db_profiles, row)
       IN  IF OwnsRow(caller, row.user_id) /\ ProfilesConstraints(profs, auth_users)
           THEN /\ db_profiles' = profs
                /\ db_lastOp' = Stmt("profiles", "insert", caller, <<row>>)
           ELSE /\ UNCHANGED db_profiles
                /\ db_lastOp' = Stmt("profiles", "insert", caller, <<>>)
    /\ UNCHANGED <<auth_users, db_skills, db_user_skills, db_requests, db_reviews>>

\* UPDATE profiles SET col = val WHERE user_id = u by caller (policy lines
\* 95-97: USING selects the rows and, with no WITH CHECK, also checks the new
\* row); a new row that breaks the policy or a constraint fails the statement
updateProfile(caller, u, patch) ==
    /\ DbOnly
    /\ LET hit(r) == r.user_id = u /\ OwnsRow(caller, r.user_id)
           profs == [i \in 1..Len(db_profiles) |->
                        IF hit(db_profiles[i]) THEN Patched(db_profiles[i], patch)
                        ELSE db_profiles[i]]
           written == SelectSeq(profs, LAMBDA r : r \notin Range(db_profiles))
           passes ==
               /\ \A i \in 1..Len(profs) :
                     hit(db_profiles[i]) => OwnsRow(caller, profs[i].user_id)
               /\ ProfilesConstraints(profs, auth_users)
       IN  IF passes
           THEN /\ db_profiles' = profs
                /\ db_lastOp' = Stmt("profiles", "update", caller, written)
           ELSE /\ UNCHANGED db_profiles
                /\ db_lastOp' = Stmt("profiles", "update", caller, <<>>)
    /\ UNCHANGED <<auth_users, db_skills, db_user_skills, db_requests, db_reviews>>

\* DELETE FROM profiles WHERE user_id = u by caller: profiles has no DELETE
\* policy (lines 91-101), so no row qualifies for any caller
deleteProfile(caller, u) ==
    /\ DbOnly
    /\ db_lastOp' = Stmt("profiles", "delete", caller, <<>>)
    /\ UNCHANGED <<auth_users, db_profiles, db_skills, db_user_skills, db_requests,
                   db_reviews>>

\* statements on user_skills by caller: one policy FOR ALL with USING
\* auth.uid() = user_id (lines 115-117), which also checks inserted and
\* updated rows
insertUserSkill(caller, row) ==
    /\ DbOnly
    /\ LET links == Append(db_user_skills, row) IN
         IF OwnsRow(caller, row.user_id) /\ UserSkillsConstraints(links, auth_users)
         THEN /\ db_user_skills' = links
              /\ db_lastOp' = Stmt("user_skills", "insert", caller, <<row>>)
         ELSE /\ UNCHANGED db_user_skills
              /\ db_lastOp' = Stmt("user_skills", "insert", caller, <<>>)
    /\ UNCHANGED <<auth_users, db_profiles, db_skills, db_requests, db_reviews>>

\* UPDATE user_skills SET col = val WHERE <row i>
updateUserSkill(caller, i, patch) ==
    /\ DbOnly
    /\ i \in 1..Len(db_user_skills)
    /\ LET hit == OwnsRow(caller, db_user_skills[i].user_id)
           links == IF hit THEN [db_user_skills EXCEPT ![i] = Patched(@, patch)]
                    ELSE db_user_skills
           passes == /\ hit => OwnsRow(caller, links[i].user_id)
                     /\ UserSkillsConstraints(links, auth_users)
       IN  IF passes /\ hit
           THEN /\ db_user_skills' = links
                /\ db_lastOp' = Stmt("user_skills", "update", caller, <<links[i]>>)
           ELSE /\ UNCHANGED db_user_skills
                /\ db_lastOp' = Stmt("user_skills", "update", caller, <<>>)
    /\ UNCHANGED <<auth_users, db_profiles, db_skills, db_requests, db_reviews>>

\* DELETE FROM user_skills WHERE <row i>
deleteUserSkill(caller, i) ==
    /\ DbOnly
    /\ i \in 1..Len(db_user_skills)
    /\ IF OwnsRow(caller, db_user_skills[i].user_id)
       THEN /\ db_user_skills' = [j \in 1..(Len(db_user_skills) - 1) |->
                                     IF j < i THEN db_user_skills[j] ELSE db_user_skills[j + 1]]
            /\ db_lastOp' = Stmt("user_skills", "delete", caller, <<db_user_skills[i]>>)
       ELSE /\ UNCHANGED db_user_skills
            /\ db_lastOp' = Stmt("user_skills", "delete", caller, <<>>)
    /\ UNCHANGED <<auth_users, db_profiles, db_skills, db_requests, db_reviews>>

\* SELECT * FROM table by caller: the policies of lines 92-93, 104-105 and
\* 112-113 are USING (true)
ReadableAlways(caller, row) == TRUE
Readable(table, caller) ==
    IF table = "profiles" THEN SelectSeq(db_profiles, LAMBDA r : ReadableAlways(caller, r))
    ELSE IF table = "skills" THEN SelectSeq(db_skills, LAMBDA r : ReadableAlways(caller, r))
    ELSE SelectSeq(db_user_skills, LAMBDA r : ReadableAlways(caller, r))

select(caller, table) ==
    /\ DbOnly
    /\ db_lastOp' = Stmt(table, "select", caller, Readable(table, caller))
    /\ UNCHANGED <<auth_users, db_profiles, db_skills, db_user_skills, db_requests,
                   db_reviews>>

PublicTables == {"profiles", "skills", "user_skills"}
UserSkillPatches ==
    {[col |-> "skill_type", val |-> t] : t \in {"offered", "wanted"}}
        \cup {[col |-> "user_id", val |-> u] : u \in AccountIds}

\* skill_requests (lines 15-22, 59-70, 119-130).  A column value that may be
\* NULL is None or Some(value)
MaxRequests == 2

\* the values of the enum type request_status (lines 15-22)
request_status == {"pending", "accepted", "declined", "completed", "cancelled"}

\* an account that is party to no request of RequestInputs
Outsider == 103
RequestCallers == Callers \cup {Outsider}

\* the row an INSERT builds; status is None when the statement leaves the
\* column out (DEFAULT 'pending', line 67) and Some(value) when it names it
NewRequest(id, requester, provider, skill, status) ==
    [id |-> id, requester_id |-> requester, provider_id |-> provider,
     requested_skill_id |-> skill,
     status |-> IF status = None THEN Some("pending") ELSE status[1]]

\* gen_random_uuid(): an id no row of the table has
FreshId(rows) ==
    CHOOSE n \in 1..(Len(rows) + 1) : \A i \in 1..Len(rows) : rows[i].id # n

\* the constraints of skill_requests (lines 61-67): primary key, foreign keys,
\* and the type of status, which has no NOT NULL
RequestsConstraints(reqs, users) ==
    /\ \A i, j \in 1..Len(reqs) : reqs[i].id = reqs[j].id => i = j
    /\ \A i \in 1..Len(reqs) :
          /\ reqs[i].requester_id \in users /\ reqs[i].provider_id \in users
          /\ \E k \in Range(db_skills) : k.id = reqs[i].requested_skill_id
          /\ reqs[i].status # None => reqs[i].status[1] \in request_status

\* auth.uid() = requester_id OR auth.uid() = provider_id (lines 122, 130)
InvolvedIn(caller, row) ==
    /\ caller # Anonymous
    /\ caller = row.requester_id \/ caller = row.provider_id

\* INSERT INTO skill_requests by caller (policy lines 124-126)
insertRequest(caller, requester, provider, skill, status) ==
    /\ DbOnly
    /\ Len(db_requests) < MaxRequests
    /\ LET row == NewRequest(FreshId(db_requests), requester, provider, skill, status)
           reqs == Append(db_requests, row)
       IN  IF /\ caller # Anonymous /\ caller = row.requester_id
              /\ RequestsConstraints(reqs, auth_users)
           THEN /\ db_requests' = reqs
                /\ db_lastOp' = Stmt("skill_requests", "insert", caller, <<row>>)
           ELSE /\ UNCHANGED db_requests
                /\ db_lastOp' = Stmt("skill_requests", "insert", caller, <<>>)
    /\ UNCHANGED <<auth_users, db_profiles, db_skills, db_user_skills, db_reviews>>

\* UPDATE skill_requests SET col = val WHERE <row i> by caller (policy lines
\* 128-130: USING selects the row and, with no WITH CHECK, also checks the new
\* row)
updateRequest(caller, i, patch) ==
    /\ DbOnly
    /\ i \in 1..Len(db_requests)
    /\ LET hit == InvolvedIn(caller, db_requests[i])
           reqs == [db_requests EXCEPT ![i] = Patched(@, patch)]
       IN  IF /\ hit /\ InvolvedIn(caller, reqs[i])
              /\ RequestsConstraints(reqs, auth_users)
           THEN /\ db_requests' = reqs
                /\ db_lastOp' = Stmt("skill_requests", "update", caller, <<reqs[i]>>)
           ELSE /\ UNCHANGED db_requests
                /\ db_lastOp' = Stmt("skill_requests", "update", caller, <<>>)
    /\ UNCHANGED <<auth_users, db_profiles, db_skills, db_user_skills, db_reviews>>

\* DELETE FROM skill_requests WHERE <row i> by caller: the table has no DELETE
\* policy (lines 119-130), so no row qualifies for any caller
deleteRequest(caller, i) ==
    /\ DbOnly
    /\ i \in 1..Len(db_requests)
    /\ db_lastOp' = Stmt("skill_requests", "delete", caller, <<>>)
    /\ UNCHANGED <<auth_users, db_profiles, db_skills, db_user_skills, db_requests,
                   db_reviews>>

\* SELECT * FROM skill_requests by caller (policy lines 120-122)
selectRequests(caller) ==
    /\ DbOnly
    /\ db_lastOp' = Stmt("skill_requests", "select", caller,
                         SelectSeq(db_requests, LAMBDA q : InvolvedIn(caller, q)))
    /\ UNCHANGED <<auth_users, db_profiles, db_skills, db_user_skills, db_requests,
                   db_reviews>>

\* the status an INSERT names: none, NULL, a value of the type, another text
StatusInputs == {None, Some(None), Some(Some("done"))}
\* SET clauses tried on skill_requests
RequestPatches ==
    {[col |-> "status", val |-> v] : v \in {None, Some("completed")}}
        \cup {[col |-> "provider_id", val |-> Outsider]}

(***************************************************************************)
(* Specifications                                                          *)
(***************************************************************************)
\* the tables the client components do not touch: one account per profile, no
\* requests, no reviews, no statement run yet
DbIdle ==
    /\ auth_users = {db_profiles[i].user_id : i \in 1..Len(db_profiles)}
    /\ db_requests = <<>>
    /\ db_reviews = <<>>
    /\ db_lastOp = None

DbEmpty ==
    /\ db_profiles = <<>> /\ db_skills = <<>> /\ db_user_skills = <<>>
    /\ DbIdle

SignupInit == SuInit /\ DbEmpty /\ DlgInit /\ HomeIdle /\ CardIdle
SpecSignup == SignupInit /\ [][SuNext]_vars

SearchInit ==
    /\ DlgInit /\ SuInit /\ HomeIdle /\ CardIdle
    /\ \E n \in 0..MaxSearchRows :
          /\ db_skills = SkillRows(n)
          /\ db_profiles = ProfileRows(n)
    /\ db_user_skills = <<>>
    /\ DbIdle
SpecSearch == SearchInit /\ [][DlgNext]_vars

\* the listing over a directory that is empty or holds MaxProfiles accounts
ListingInit ==
    /\ HomeInit /\ SuInit /\ DlgInit /\ CardIdle
    /\ \E n \in {0, MaxListed} :
          /\ db_profiles = ProfileRows(n)
          /\ db_user_skills = LinkRows(n, MaxCatalog)
    /\ db_skills = SkillRows(MaxCatalog)
    /\ DbIdle
SpecHome == ListingInit /\ [][HomeNext]_vars

\* the listing used without haste: an input is made only when no fetch is in
\* flight (the submit of the form on a later page still starts two fetches);
\* every remote call may answer with or without data
SerialNext ==
    \/ availableSkillsReturn
    \/ \E s \in SearchInputs : InFlight = 0 /\ setSearchQuery(s)
    \/ \E f \in availableSkills : InFlight = 0 /\ setSkillFilter(f)
    \/ \E p \in PageInputs : InFlight = 0 /\ setCurrentPage(p)
    \/ InFlight = 0 /\ handleSearch
    \/ InFlight = 0 /\ clearFilters
    \/ \E i \in 1..MaxInFlight, found \in BOOLEAN : skillLookupReturn(i, found)
    \/ \E i \in 1..MaxInFlight, ok \in BOOLEAN : offerersReturn(i, ok)
    \/ \E i \in 1..MaxInFlight : profilesReturn(i)
    \/ \E i \in 1..MaxInFlight : profilesError(i)
    \/ \E i \in 1..MaxInFlight, ok \in BOOLEAN : userSkillsReturn(i, ok)
SpecSerial == ListingInit /\ [][SerialNext]_vars

\* the listing used in haste on a directory of two pages: pages are changed
\* and the form is submitted while fetches are in flight, and the order in
\* which the fetches store their results is logged
OverlapInit ==
    /\ SuInit /\ DlgInit /\ CardIdle
    /\ profiles = <<>> /\ userSkills = EmptyMap /\ loading = TRUE
    /\ currentPage = 1 /\ totalPages = 1 /\ searchQuery = <<>> /\ skillFilter = <<>>
    /\ availableSkills = {}
    /\ fetches = <<NewFetch(1, <<>>, <<>>)>>
    /\ lastStore = None /\ lastCount = None /\ logging = TRUE /\ pageLog = EmptyMap
    /\ db_profiles = ProfileRows(MaxListed)
    /\ db_user_skills = LinkRows(MaxListed, MaxCatalog)
    /\ db_skills = SkillRows(MaxCatalog)
    /\ DbIdle
OverlapNext ==
    \/ \E s \in SearchInputs : setSearchQuery(s)
    \/ \E p \in PageInputs : setCurrentPage(p)
    \/ handleSearch
    \/ \E i \in 1..MaxInFlight : profilesReturn(i)
    \/ \E i \in 1..MaxInFlight : profilesError(i)
    \/ \E i \in 1..MaxInFlight, ok \in BOOLEAN : userSkillsReturn(i, ok)
SpecOverlap == OverlapInit /\ [][OverlapNext]_vars

\* paging through a fixed directory: one fetch at a time, every remote call
\* answers from the tables, the stored pages are logged
PagingInit ==
    /\ SuInit /\ DlgInit /\ CardIdle
    /\ profiles = <<>> /\ userSkills = EmptyMap /\ loading = TRUE
    /\ currentPage = 1 /\ totalPages = 1 /\ searchQuery = <<>> /\ skillFilter = <<>>
    /\ availableSkills = {}
    /\ fetches = <<NewFetch(1, <<>>, <<>>)>>
    /\ lastStore = None /\ lastCount = None /\ logging = TRUE /\ pageLog = EmptyMap
    /\ \E n \in 0..MaxProfiles :
          /\ db_profiles = ProfileRows(n)
          /\ db_user_skills = LinkRows(n, MaxCatalog)
    /\ db_skills = SkillRows(MaxCatalog)
    /\ DbIdle
PagingNext ==
    \/ availableSkillsReturn
    \/ \E s \in SearchInputs : InFlight = 0 /\ setSearchQuery(s)
    \/ \E f \in availableSkills : InFlight = 0 /\ setSkillFilter(f)
    \/ \E p \in PageInputs : setCurrentPage(p)
    \/ skillLookupReturn(1, TRUE)
    \/ offerersReturn(1, TRUE)
    \/ profilesReturn(1)
    \/ userSkillsReturn(1, TRUE)
SpecPaging == PagingInit /\ [][PagingNext]_vars

\* the skill reduction over every small user_skills table of two accounts
LinkRowInputs ==
    {[user_id |-> 100 + i, skill_id |-> k, skill_type |-> t] :
        i \in 1..2, k \in 1..MaxCatalog, t \in {"offered", "wanted"}}
LinkTables ==
    {t \in SeqsUpTo(LinkRowInputs, MaxLinkRows) :
        \A i, j \in 1..Len(t) : t[i] = t[j] => i = j}
SkillsInit ==
    /\ HomeInit /\ SuInit /\ DlgInit /\ CardIdle
    /\ db_profiles = ProfileRows(2)
    /\ db_skills = SkillRows(MaxCatalog)
    /\ db_user_skills \in LinkTables
    /\ DbIdle
SkillsNext ==
    \/ profilesReturn(1)
    \/ userSkillsReturn(1, TRUE)
SpecSkills == SkillsInit /\ [][SkillsNext]_vars

\* reviews between accounts that come and go, and updates of the rating column
\* by owners and by others
DbInit ==
    /\ SuInit /\ DlgInit /\ HomeIdle /\ CardIdle
    /\ DbEmpty
DbNext ==
    \/ \E u \in AccountIds : createAccount(u, Decimal(u), Decimal(u))
    \/ \E u \in AccountIds : deleteAccount(u)
    \/ \E c \in Callers, a, b \in AccountIds, q \in RequestInputs, g \in RatingInputs :
          a # b /\ insertReview(c, a, b, q, g)
    \/ \E c \in Callers, u \in AccountIds, p \in RatingPatches : updateProfile(c, u, p)
SpecDb == DbInit /\ [][DbNext]_vars

\* accounts that come and go, and every caller's statements on profiles
AccountsInit ==
    /\ SuInit /\ DlgInit /\ HomeIdle /\ CardIdle
    /\ DbEmpty
AccountsNext ==
    \/ \E u \in AccountIds, n \in AccountNames : createAccount(u, n, n)
    \/ \E u \in AccountIds : deleteAccount(u)
    \/ \E c \in Callers, u \in AccountIds, n \in AccountNames : insertProfile(c, u, n)
    \/ \E c \in Callers, u \in AccountIds, p \in ProfilePatches : updateProfile(c, u, p)
    \/ \E c \in Callers, u \in AccountIds : deleteProfile(c, u)
SpecAccounts == AccountsInit /\ [][AccountsNext]_vars

\* statements of every caller against the tables of the accounts
OwnedLinkInputs ==
    {[user_id |-> u, skill_id |-> 1, skill_type |-> t] :
        u \in AccountIds, t \in {"offered", "wanted"}}
RlsInit ==
    /\ SuInit /\ DlgInit /\ HomeIdle /\ CardIdle
    /\ db_profiles = ProfileRows(Cardinality(AccountIds))
    /\ db_skills = SkillRows(MaxCatalog)
    /\ db_user_skills = <<>>
    /\ DbIdle
RlsNext ==
    \/ \E c \in Callers, u \in AccountIds, n \in AccountNames : insertProfile(c, u, n)
    \/ \E c \in Callers, u \in AccountIds, p \in ProfilePatches : updateProfile(c, u, p)
    \/ \E c \in Callers, u \in AccountIds : deleteProfile(c, u)
    \/ \E c \in Callers, r \in OwnedLinkInputs :
          Len(db_user_skills) < MaxOwnedLinks /\ insertUserSkill(c, r)
    \/ \E c \in Callers, i \in 1..MaxOwnedLinks, p \in UserSkillPatches : updateUserSkill(c, i, p)
    \/ \E c \in Callers, i \in 1..MaxOwnedLinks : deleteUserSkill(c, i)
    \/ \E c \in Callers, t \in PublicTables : select(c, t)
SpecRls == RlsInit /\ [][RlsNext]_vars

\* requests between the two accounts, statements on them by every caller
\* (the parties, a third account, no session), and reviews tied to them
RequestRefs == {None, Some(1)}
RequestsInit ==
    /\ SuInit /\ DlgInit /\ HomeIdle /\ CardIdle
    /\ db_profiles = ProfileRows(Cardinality(AccountIds \cup {Outsider}))
    /\ db_skills = SkillRows(1)
    /\ db_user_skills = <<>>
    /\ DbIdle
RequestsNext ==
    \/ \E c \in RequestCallers, a, b \in AccountIds, st \in StatusInputs :
          a # b /\ insertRequest(c, a, b, 1, st)
    \/ \E c \in RequestCallers, i \in 1..MaxRequests, p \in RequestPatches :
          updateRequest(c, i, p)
    \/ \E c \in RequestCallers, i \in 1..MaxRequests : deleteRequest(c, i)
    \/ \E c \in RequestCallers : selectRequests(c)
    \/ \E q \in RequestRefs :
          Len(db_reviews) < MaxRequests /\ insertReview(101, 101, Outsider, q, 5)
    \/ deleteAccount(Outsider)
SpecRequests == RequestsInit /\ [][RequestsNext]_vars

\* a card rendered by a parent, clicked under every session
CardSpecInit ==
    /\ CardInit /\ SuInit /\ DlgInit /\ HomeIdle
    /\ db_profiles = ProfileRows(2)
    /\ db_skills = <<>> /\ db_user_skills = <<>>
    /\ DbIdle
SpecCard == CardSpecInit /\ [][CardNext]_vars

(***************************************************************************)
(* Listing properties                                                      *)
(***************************************************************************)
\* does the account of profile row r offer the skill named name?
OffersSkill(r, name) ==
    \E k \in Range(db_skills), l \in Range(db_user_skills) :
        /\ k.name = name
        /\ l.skill_id = k.id /\ l.user_id = r.user_id /\ l.skill_type = "offered"

\* the profiles that match the current search text and skill filter
MatchingSet ==
    {r \in Range(db_profiles) :
        /\ \/ searchQuery = <<>>
           \/ ILike(r.username, searchQuery)
           \/ ILike(r.full_name, searchQuery)
        /\ skillFilter # <<>> => OffersSkill(r, skillFilter)}

RECURSIVE PagesTogether(_)
PagesTogether(n) == IF n = 0 THEN <<>> ELSE PagesTogether(n - 1) \o pageLog[n]

\* C1: with the filters fixed, every stored page holds at most ITEMS_PER_PAGE
\* profiles, and once pages 1..totalPages have all been fetched they hold each
\* matching profile exactly once and nothing else.
C1_PagesPartition ==
    /\ \A p \in DOMAIN pageLog : Len(pageLog[p]) <= ITEMS_PER_PAGE
    /\ (InFlight = 0 /\ 1..totalPages \subseteq DOMAIN pageLog) =>
          LET all == PagesTogether(totalPages)
          IN  /\ \A i, j \in 1..Len(all) : all[i] = all[j] => i = j
              /\ Range(all) = MatchingSet

\* three pages were fetched: two full ones and a last one with a single profile
C1_Witness ==
    /\ InFlight = 0 /\ totalPages = 3 /\ DOMAIN pageLog = 1..3
    /\ Len(pageLog[1]) = ITEMS_PER_PAGE /\ Len(pageLog[3]) = 1

\* C2 (as claimed): the totalPages stored after a profile query that returned
\* count rows is the least number of pages of ITEMS_PER_PAGE that hold count,
\* and it is 1 when count is 0.
C2_TotalPagesCeil ==
    lastCount # None =>
        /\ totalPages * ITEMS_PER_PAGE >= lastCount[1]
        /\ lastCount[1] > 0 => (totalPages - 1) * ITEMS_PER_PAGE < lastCount[1]
        /\ lastCount[1] = 0 => totalPages = 1

\* is name a skill filter that no account offers?
NobodyOffers(name) ==
    /\ name # <<>>
    /\ ~\E r \in Range(db_profiles) : OffersSkill(r, name)

\* C3 (as claimed): a fetch whose skill filter names a skill nobody offers
\* never issues the profile query, and it ends with no profiles and totalPages 1.
C3_NoOfferersNoQuery ==
    /\ \A i \in 1..Len(fetches) :
          NobodyOffers(fetches[i].skill) => fetches[i].pc \notin {"profiles", "userSkills"}
    /\ (lastStore # None /\ NobodyOffers(lastStore[1].skill)) =>
          (~lastStore[1].queried /\ profiles = <<>> /\ totalPages = 1)

\* C4 (as claimed): the profiles stored by a fetch with a skill filter all
\* belong to accounts that offer that skill.
C4_StoredProfilesOfferSkill ==
    (lastStore # None /\ lastStore[1].skill # <<>>) =>
        \A r \in Range(profiles) : OffersSkill(r, lastStore[1].skill)

\* the positions of the links of account u with type t, in the returned order
LinkPositions(u, t) ==
    {i \in 1..Len(db_user_skills) :
        db_user_skills[i].user_id = u /\ db_user_skills[i].skill_type = t}

FirstLink(u, t) ==
    LET ps == LinkPositions(u, t)
    IN  IF ps = {} THEN None
        ELSE Some(SkillName(db_user_skills[CHOOSE i \in ps : \A j \in ps : i <= j].skill_id))

\* C5: after the reduction, an account with links has exactly one entry, whose
\* offered and wanted skill are each absent or the skill of the first link of
\* that type; an account without links has no entry.
C5_FirstLinkWins ==
    (InFlight = 0 /\ lastStore # None) =>
        \A r \in Range(profiles) :
            LET u == r.user_id IN
            IF LinkPositions(u, "offered") \cup LinkPositions(u, "wanted") = {}
            THEN u \notin DOMAIN userSkills
            ELSE /\ u \in DOMAIN userSkills
                 /\ Len(userSkills[u].offered) <= 1 /\ Len(userSkills[u].wanted) <= 1
                 /\ userSkills[u].offered = FirstLink(u, "offered")
                 /\ userSkills[u].wanted = FirstLink(u, "wanted")

\* an account with two offered links of different skills was reduced
C5_Witness ==
    /\ InFlight = 0 /\ lastStore # None
    /\ \E u \in DOMAIN userSkills :
          /\ Cardinality(LinkPositions(u, "offered")) >= 2
          /\ userSkills[u].offered # None

(***************************************************************************)
(* Search dialog properties                                                *)
(***************************************************************************)
\* C6: setting the dialog's query to an empty or whitespace-only text empties
\* the result list, leaves no timer scheduled and issues no remote query in
\* that step; no timer and no in-flight search ever carries a blank query.
C6_BlankQueryNoSearch ==
    /\ [](/\ \A t \in timers : ~IsBlank(t.q)
          /\ \A s \in searches : ~IsBlank(s.q))
    /\ [][(query' # query /\ IsBlank(query')) =>
            /\ results' = <<>>
            /\ timers' = {}
            /\ searches' = searches
            /\ dlg_started' = dlg_started]_vars

\* a whitespace-only query, typed after a search for "a" had filled the list
C6_Witness ==
    /\ query = <<" ">> /\ results = <<>> /\ timers = {} /\ searches = {}
    /\ dlg_lastWriter # None /\ dlg_lastWriter[1].q = <<"a">>
    /\ Len(db_skills) > 0

\* C7: a change of the query replaces the pending timer by a fresh one for the
\* new value, and a search is started only for the current query value, after
\* that value stayed unchanged for the whole SearchDelay.
C7_Debounce ==
    /\ [](/\ Cardinality(timers) <= 1
          /\ \A t \in timers : t.q = query /\ t.age <= dlg_sinceChange)
    /\ [][/\ query' # query => timers' \subseteq {[q |-> query', age |-> 0]}
          /\ dlg_started' # dlg_started =>
                /\ dlg_sinceChange >= SearchDelay
                /\ \E s \in searches' \ searches : s.q = query /\ s.pc = "skills"]_vars

\* "a" was searched, then the query changed to "aB": a fresh timer is pending
C7_Witness ==
    /\ timers = {[q |-> <<"a", "B">>, age |-> 0]}
    /\ \E s \in searches : s.q = <<"a">>

\* C8: a non-empty result list is the list written by the last finished search:
\* at most SearchLimit entries tagged skill, then at most SearchLimit entries
\* tagged user, each a distinct row that matches that search's query (nothing
\* of an earlier list is kept).
C8_ResultsCapped ==
    results # <<>> =>
        /\ dlg_lastWriter # None
        /\ \E k \in 0..SearchLimit :
              /\ k <= Len(results) /\ Len(results) - k <= SearchLimit
              /\ \A i \in 1..Len(results) :
                    IF i <= k
                    THEN /\ results[i].type = "skill"
                         /\ \E r \in Range(db_skills) :
                               /\ r.id = results[i].id /\ r.name = results[i].name
                               /\ ILike(r.name, dlg_lastWriter[1].q)
                    ELSE /\ results[i].type = "user"
                         /\ \E r \in Range(db_profiles) :
                               /\ r.id = results[i].id /\ r.full_name = results[i].name
                               /\ \/ ILike(r.username, dlg_lastWriter[1].q)
                                  \/ ILike(r.full_name, dlg_lastWriter[1].q)
        /\ \A i, j \in 1..Len(results) :
              (results[i].type = results[j].type /\ results[i].id = results[j].id) => i = j

\* both queries hit their limit: five skills followed by five users
C8_Witness ==
    /\ Len(results) = 2 * SearchLimit
    /\ results[SearchLimit].type = "skill"
    /\ results[SearchLimit + 1].type = "user"

\* C9 (as claimed): only the most recently started search writes the result
\* list; the response of a superseded search is discarded.
C9_StaleResponseDiscarded ==
    [][dlg_lastWriter' # dlg_lastWriter => dlg_lastWriter'[1].gen = dlg_started]_vars

(***************************************************************************)
(* Signup properties                                                       *)
(***************************************************************************)
\* C10 (as claimed): a submit with a username shorter than MinUsernameLen ends
\* with the username-length message and without a signUp call, whatever the
\* email and password are.
C10_UsernameShortMessageAlways ==
    [][(su_submits' # su_submits /\ Len(username) < MinUsernameLen) =>
          /\ su_error' = MsgUsernameShort
          /\ su_pending' = None
          /\ ~su_loading']_vars

\* C10 (amended): a submit with a username shorter than MinUsernameLen never
\* calls signUp and ends with loading false and a validation message: the
\* username-length message when email and username are non-empty and the
\* password has at least MinPasswordLen characters, otherwise the message of
\* the earlier check that failed.
C10_UsernameShortRejected ==
    [][(su_submits' # su_submits /\ Len(username) < MinUsernameLen) =>
          /\ su_pending' = None
          /\ ~su_loading'
          /\ ~success'
          /\ su_error' =
                IF email = <<>> \/ password = <<>> \/ username = <<>>
                THEN MsgAllRequired
                ELSE IF Len(password) < MinPasswordLen THEN MsgPasswordShort
                ELSE MsgUsernameShort]_vars

\* a two-character username was submitted with a valid email and password
C10_Witness ==
    /\ su_submits > 0 /\ su_error = MsgUsernameShort /\ su_pending = None
    /\ Len(username) = 2 /\ email # <<>> /\ Len(password) >= MinPasswordLen

\* do the three fields pass every validation named by the form?
FieldsValid(e, p, u) ==
    /\ e # <<>> /\ p # <<>> /\ u # <<>>
    /\ Len(p) >= MinPasswordLen
    /\ Len(u) >= MinUsernameLen
    /\ \A i \in 1..Len(u) : u[i] \in LowerLetters \cup UpperLetters \cup Digits \cup {"_"}

\* C11: a submit calls signUp only with fields that pass every validation
\* (all three non-empty, password of at least MinPasswordLen characters,
\* username of at least MinUsernameLen characters made of letters, digits and
\* underscores); a submit whose fields fail a validation ends with a non-empty
\* error message, loading false and no signUp call.
C11_SignUpOnlyWhenValid ==
    [][su_submits' # su_submits =>
          IF FieldsValid(email, password, username)
          THEN su_pending' = Some([email |-> email, password |-> password,
                                   username |-> username])
          ELSE /\ su_pending' = None
               /\ su_error' # NoError
               /\ ~su_loading'
               /\ ~success']_vars

\* signUp is in flight for a username with a letter, a digit and an underscore,
\* after an earlier submit was rejected
C11_Witness ==
    /\ su_pending # None /\ su_loading /\ su_submits = 2
    /\ su_pending[1].username = <<"a", "7", "_">>
    /\ Len(su_pending[1].password) = MinPasswordLen

\* C12: after signUp returned an error, the displayed error is the fixed
\* "already exists" text if the backend message contains "already registered",
\* otherwise the fixed "too weak" text if it contains "weak password",
\* otherwise the backend message itself; success is not set.
C12_SignUpErrorMapped ==
    (su_reply # None /\ su_reply[1].kind = "error") =>
        LET m == su_reply[1].message IN
        /\ ~success
        /\ su_error =
              IF \E i \in 1..Len(m) : m[i] = "already registered"
              THEN <<"An account with this email already exists. Please sign in instead.">>
              ELSE IF \E i \in 1..Len(m) : m[i] = "weak password"
              THEN <<"Password is too weak. Please choose a stronger password.">>
              ELSE m

\* the backend message held both phrases and the "already exists" text is shown
C12_Witness ==
    /\ su_reply # None /\ su_reply[1].kind = "error"
    /\ \E i, j \in 1..Len(su_reply[1].message) :
          /\ su_reply[1].message[i] = "already registered"
          /\ su_reply[1].message[j] = "weak password"
    /\ su_error = MsgExists

(***************************************************************************)
(* Database properties                                                     *)
(***************************************************************************)
\* the review rows received by account u
ReceivedBy(u) == {i \in 1..Len(db_reviews) : db_reviews[i].reviewee_id = u}

RECURSIVE RatingSum(_)
RatingSum(is) ==
    IF is = {} THEN 0
    ELSE LET i == CHOOSE j \in is : TRUE
         IN  db_reviews[i].rating + RatingSum(is \ {i})

\* C13 (as claimed): in every database state each profile's total_reviews is
\* the number of review rows received by its account, and its avg_rating is
\* their arithmetic mean (to the two decimals the column holds), 0 when there
\* are none.
C13_RatingIsMeanOfReviews ==
    \A r \in Range(db_profiles) :
        LET is == ReceivedBy(r.user_id)
            n == Cardinality(is)
            diff == r.avg_rating * n - 100 * RatingSum(is)
        IN  /\ r.total_reviews = n
            /\ IF n = 0 THEN r.avg_rating = 0
               ELSE 2 * diff <= n /\ 2 * diff >= -n

\* C14: every account has exactly one profile row and every profile row
\* belongs to an account; a step that creates an account adds its profile, and
\* a profile row goes away only in a step that deletes its account.
C14_OneProfilePerAccount ==
    /\ [](/\ \A u \in auth_users :
                Cardinality({i \in 1..Len(db_profiles) : db_profiles[i].user_id = u}) = 1
          /\ \A r \in Range(db_profiles) : r.user_id \in auth_users)
    /\ [][/\ \A u \in auth_users' \ auth_users :
                /\ \E r \in Range(db_profiles') : r.user_id = u
                /\ ~\E r \in Range(db_profiles) : r.user_id = u
          /\ \A r \in Range(db_profiles) :
                (~\E q \in Range(db_profiles') : q.id = r.id /\ q.user_id = r.user_id)
                    => (r.user_id \in auth_users /\ r.user_id \notin auth_users')]_vars

\* both accounts have their profile, the older account's after it was deleted
\* and created again, and a profile insert by an identity has just been refused
C14_Witness ==
    /\ auth_users = AccountIds /\ Len(db_profiles) = 2
    /\ db_profiles[1].user_id = 102 /\ db_profiles[2].user_id = 101
    /\ db_lastOp = Stmt("profiles", "insert", 101, <<>>)

\* C15: a statement that writes profiles or user_skills changes only rows whose
\* user_id is the caller's identity, so a write by any other identity leaves
\* the table unchanged; a read of profiles, skills or user_skills returns
\* every row to every caller.
C15_WritesByOwnerReadsByAll ==
    [][db_lastOp' # None =>
          LET st == db_lastOp'[1]
              changed(old, new) == (Range(old) \ Range(new)) \cup (Range(new) \ Range(old))
          IN  /\ (st.op # "select" /\ st.table \in {"profiles", "user_skills"}) =>
                    \A r \in changed(db_profiles, db_profiles')
                              \cup changed(db_user_skills, db_user_skills') :
                        st.caller # Anonymous /\ r.user_id = st.caller
              /\ st.op = "select" =>
                    st.rows = (IF st.table = "profiles" THEN db_profiles
                               ELSE IF st.table = "skills" THEN db_skills
                               ELSE db_user_skills)]_vars

\* account 101 has changed its own profile and owns the only skill link, and
\* account 102 has just tried to delete that link
C15_Witness ==
    /\ \E r \in Range(db_profiles) : r.user_id = 101 /\ r.avg_rating = 500
    /\ Len(db_user_skills) = 1 /\ db_user_skills[1].user_id = 101
    /\ db_lastOp = Stmt("user_skills", "delete", 102, <<>>)

(***************************************************************************)
(* Search dialog: order of the two queries                                 *)
(***************************************************************************)
\* C16 (as claimed): in a search the profiles query is issued before the
\* skills query has completed, so while the skills query is in flight the
\* profiles query is in flight too.
C16_QueriesConcurrent ==
    \A s \in searches :
        "skills" \in QueriesInFlight(s) => "profiles" \in QueriesInFlight(s)

(***************************************************************************)
(* Listing: re-fetch triggers and failures                                 *)
(***************************************************************************)
\* a step in which fetchProfiles was called
FetchStarted == Len(fetches') > Len(fetches)

\* C17 (as claimed): typing in the search box starts no fetch (only the submit
\* of the form does); a change of the page or of the skill filter starts one
\* at once; and a started fetch runs from its first remote query with the
\* page, search text and skill filter now current.
C17_RefetchOnSubmitOnly ==
    [][/\ (/\ searchQuery' # searchQuery /\ searchQuery' # <<>>
           /\ currentPage' = currentPage /\ skillFilter' = skillFilter) => ~FetchStarted
       /\ (currentPage' # currentPage \/ skillFilter' # skillFilter) => FetchStarted
       /\ FetchStarted =>
             LET f == fetches'[Len(fetches')]
             IN  /\ f.page = currentPage' /\ f.search = searchQuery' /\ f.skill = skillFilter'
                 /\ f.ids = None
                 /\ f.pc = IF f.skill # <<>> THEN "skill" ELSE "profiles"]_vars

\* C18 (as claimed): a remote error aborts the fetch.  After a skill lookup
\* that returned no data (.single() reports an error when it has no row) no
\* further query of the fetch is issued; a failed offering-users lookup, a
\* failed profile query and a failed skill-link query leave the profile list
\* and totalPages as they were.
C18_ErrorAbortsFetch ==
    [][/\ \A i \in 1..Len(fetches) :
             (fetches[i].pc = "skill" /\ Len(fetches') = Len(fetches))
                 => fetches'[i].pc \in {"skill", "offerers"}
       /\ (lastStore' # lastStore /\ lastStore'[1].failed)
             => (profiles' = profiles /\ totalPages' = totalPages)
       /\ (\E i \in 1..Len(fetches) :
              fetches[i].pc \in {"profiles", "userSkills"} /\ fetches' = Without(fetches, i))
             => (profiles' = profiles /\ totalPages' = totalPages)]_vars

\* C19: the step in which a fetch's profile query fails ends the fetch with
\* loading false and leaves the profile list, totalPages and the skill map
\* untouched; so do the steps of a fetch before its profile query, unless the
\* fetch ends there with the empty result.
C19_ProfileErrorKeepsState ==
    [][/\ (\E i \in 1..Len(fetches) :
              fetches[i].pc = "profiles" /\ fetches' = Without(fetches, i))
             => /\ ~loading'
                /\ profiles' = profiles /\ totalPages' = totalPages
                /\ userSkills' = userSkills
       /\ (\E i \in 1..Len(fetches) :
              /\ fetches[i].pc \in {"skill", "offerers"}
              /\ Len(fetches') = Len(fetches) /\ fetches'[i] # fetches[i])
             => /\ profiles' = profiles /\ totalPages' = totalPages
                /\ userSkills' = userSkills]_vars

\* page 1 was stored, page 2 was asked for and no fetch is in flight, yet the
\* list still is the full first page: the fetch for page 2 ended without
\* storing
C19_Witness ==
    /\ InFlight = 0 /\ ~loading
    /\ currentPage = 2 /\ totalPages = 2
    /\ lastStore # None /\ lastStore[1].page = 1
    /\ Len(profiles) = ITEMS_PER_PAGE

\* the rows the profile query matches when it carries only the search text
SearchMatches(s) ==
    {r \in Range(db_profiles) :
        s = <<>> \/ ILike(r.username, s) \/ ILike(r.full_name, s)}

\* C20: a fetch without a skill filter is never at a skills lookup or an
\* offering-users lookup: it starts at the profile query, and what that query
\* stores is drawn from all profiles when the search text is empty and from
\* those whose username or full name contains the search text otherwise.
C20_NoFilterNoLookup ==
    /\ \A i \in 1..Len(fetches) :
          fetches[i].skill = <<>> => fetches[i].pc \in {"profiles", "userSkills"}
    /\ (lastStore # None /\ lastStore[1].skill = <<>>) =>
          /\ lastStore[1].queried
          /\ lastCount = Some(Cardinality(SearchMatches(lastStore[1].search)))
          /\ Range(profiles) \subseteq SearchMatches(lastStore[1].search)

\* a fetch with search text and no skill filter stored a page drawn from only
\* part of the directory
C20_Witness ==
    /\ lastStore # None /\ lastStore[1].skill = <<>> /\ lastStore[1].search = <<"a">>
    /\ lastStore[1].queried /\ lastCount # None
    /\ lastCount[1] > 0 /\ lastCount[1] < Len(db_profiles)
    /\ Len(profiles) = lastCount[1]

(***************************************************************************)
(* Database: reviews and skill requests                                    *)
(***************************************************************************)
\* C21 (as claimed): no two review rows have the same reviewer, reviewee and
\* request, where two rows that are both tied to no request count as having
\* the same request.
C21_OneReviewPerTriple ==
    \A i, j \in 1..Len(db_reviews) :
        (/\ db_reviews[i].reviewer_id = db_reviews[j].reviewer_id
         /\ db_reviews[i].reviewee_id = db_reviews[j].reviewee_id
         /\ db_reviews[i].skill_request_id = db_reviews[j].skill_request_id) => i = j

\* the parties of request row q
Parties(q) == {q.requester_id, q.provider_id}

\* every statement on skill_requests respects the parties: a select returns to
\* the caller exactly the rows it is a party of, an insert adds only a row
\* whose requester is the caller, and a row changes or goes only by a
\* statement of one of its parties
RequestAccessByParties ==
    [][(db_lastOp' # None /\ db_lastOp'[1].table = "skill_requests") =>
          LET st == db_lastOp'[1]
              mine == SelectSeq(db_requests, LAMBDA q : st.caller \in Parties(q))
          IN  /\ st.op = "select" =>
                    st.rows = (IF st.caller = Anonymous THEN <<>> ELSE mine)
              /\ \A q \in Range(db_requests') \ Range(db_requests) :
                    IF \E o \in Range(db_requests) : o.id = q.id
                    THEN /\ st.op = "update" /\ st.caller # Anonymous
                         /\ \E o \in Range(db_requests) :
                               o.id = q.id /\ st.caller \in Parties(o)
                    ELSE /\ st.op = "insert" /\ st.caller # Anonymous
                         /\ q.requester_id = st.caller
              /\ \A o \in Range(db_requests) :
                    (~\E q \in Range(db_requests') : q.id = o.id) => FALSE]_vars

\* the status of every request is one of the five values of the type
StatusInEnum ==
    \A q \in Range(db_requests) :
        q.status # None /\ q.status[1] \in request_status

\* C22 (as claimed): a skill request is read and changed only by its requester
\* and its provider, it is created only by the identity named as its
\* requester, and its status is always one of pending, accepted, declined,
\* completed, cancelled.
C22_RequestsByPartiesStatusInEnum ==
    /\ []StatusInEnum
    /\ RequestAccessByParties

(***************************************************************************)
(* ProfileCard properties                                                  *)
(***************************************************************************)
\* C23: the request callback is invoked only in a step taken while a user is
\* signed in, and then once, with the id of the profile the card shows; a
\* click with no signed-in user adds the log-in notice to the toasts and does
\* not invoke the callback.
C23_RequestOnlySignedIn ==
    [][/\ requested' # requested =>
             /\ user # None
             /\ requested' = Append(requested, profile.id)
       /\ (clicks' # clicks /\ user = None) =>
             /\ requested' = requested
             /\ Len(toasts') = Len(toasts) + 1
             /\ toasts'[Len(toasts')].title = "Please log in"]_vars

\* a signed-out click was answered with the notice, then account 101 signed in
\* and requested the profile of account 102
C23_Witness ==
    /\ Len(toasts) = 1 /\ clicks = 2
    /\ user = Some([id |-> 101]) /\ profile.user_id = 102
    /\ requested = <<profile.id>>

(***************************************************************************)
(* Listing: overlapping fetches                                            *)
(***************************************************************************)
\* C24 (as claimed): once no fetch is in flight, the profile list and
\* totalPages on display are those of the fetch issued for the current page,
\* search text and skill filter, in whatever order overlapping fetches
\* complete: if they were last written by a fetch that had been overtaken (a
\* fetch started before one whose result was already stored), then that fetch
\* was issued for the current values too.
C24_LatestFetchWins ==
    (InFlight = 0 /\ lastStore # None /\ lastStore[1].stale) =>
        /\ lastStore[1].page = currentPage
        /\ lastStore[1].search = searchQuery
        /\ lastStore[1].skill = skillFilter

\* C25 (as claimed): whenever no fetch is in flight, the current page lies
\* between 1 and totalPages, or is 1 when totalPages is below 1.
C25_PageInRange ==
    InFlight = 0 =>
        /\ 1 <= currentPage
        /\ currentPage <= (IF totalPages > 1 THEN totalPages ELSE 1)

\* C26 (as claimed): loading is true in every state with a fetch in flight,
\* and false in every state in which all started fetches have completed.
C26_LoadingWhileInFlight ==
    /\ InFlight > 0 => loading
    /\ InFlight = 0 => ~loading

(***************************************************************************)
(* Search dialog: late and partial answers                                 *)
(***************************************************************************)
\* C27 (as claimed): in every state of the dialog, a query that is empty or
\* only white space comes with an empty result list.
C27_BlankQueryEmptyResults ==
    IsBlank(query) => results = <<>>

(***************************************************************************)
(* Signup: outcome of a submit                                             *)
(***************************************************************************)
\* C28: whenever a submit has completed (one was made and no signUp call is
\* awaited), loading is false and exactly one outcome is set, success or a
\* non-empty error message; and success is set only if the signUp call of
\* that submit returned without an error.
C28_OneOutcomePerSubmit ==
    (su_submits > 0 /\ su_pending = None) =>
        /\ ~su_loading
        /\ success # (su_error # <<>>)
        /\ success => su_reply = Some(Reply("ok", <<>>))

\* a first submit ended with an error, the second one with success alone
C28_Witness ==
    /\ su_submits = 2 /\ su_pending = None
    /\ success /\ su_error = <<>> /\ ~su_loading

\* the entries a search for q shows for each table when its query returns data
SkillEntries(q) ==
    LET rows == SelectSeq(db_skills, LAMBDA r : ILike(r.name, q))
        n == IF Len(rows) < SearchLimit THEN Len(rows) ELSE SearchLimit
    IN  [i \in 1..n |-> [type |-> "skill", id |-> rows[i].id, name |-> rows[i].name]]
UserEntries(q) ==
    LET rows == SelectSeq(db_profiles,
                          LAMBDA r : ILike(r.username, q) \/ ILike(r.full_name, q))
        n == IF Len(rows) < SearchLimit THEN Len(rows) ELSE SearchLimit
    IN  [i \in 1..n |-> [type |-> "user", id |-> rows[i].id, name |-> rows[i].full_name]]

\* C29: a search that completes without a throw replaces the result list by
\* the entries of the queries that returned data (none for a query that
\* returned no data, all of them for the other one), and a search in which a
\* query throws leaves the list as it was; both end with loading false.
C29_PartialResultsReplace ==
    [][/\ dlg_lastWriter' # dlg_lastWriter =>
             LET w == dlg_lastWriter'[1]
             IN  /\ results' =
                       (IF "skills" \in w.nodata THEN <<>> ELSE SkillEntries(w.q))
                       \o (IF "profiles" \in w.nodata THEN <<>> ELSE UserEntries(w.q))
                 /\ ~dlg_loading'
       /\ (searches' # searches /\ searches' \subseteq searches
           /\ dlg_lastWriter' = dlg_lastWriter) =>
             /\ results' = results
             /\ ~dlg_loading']_vars

\* a list of skills and users was replaced by users alone: the skills query of
\* the second search returned no data although skills match its text
C29_Witness ==
    /\ dlg_lastWriter # None /\ dlg_lastWriter[1].gen = 2
    /\ dlg_lastWriter[1].nodata = {"skills"}
    /\ SkillEntries(dlg_lastWriter[1].q) # <<>>
    /\ results # <<>> /\ \A i \in 1..Len(results) : results[i].type = "user"
    /\ ~dlg_loading

====
